---- MODULE Spec2Model ----
(***************************************************************************)
(* Model of simulate_mm1_queue (src/mm1_queue_simulation.py): a discrete   *)
(* event simulation of an M/M/1 queue.  One behaviour is a sequence of     *)
(* calls to simulate_mm1_queue inside one Python process; the process-wide *)
(* numpy generator (rng) is the only state that outlives a call.           *)
(*                                                                         *)
(* Times are integers (exact arithmetic); a quotient a / b computed by the *)
(* code is kept as the pair <<a, b>>.                                      *)
(***************************************************************************)
EXTENDS Integers, Sequences, FiniteSets, TLC

VARIABLES
    rng,                 \* process-wide state of np.random
    arrival_rate, service_rate, simulation_time, seed,   \* arguments of the call
    pc,                  \* "idle" | "loop" | "done" | "error"
    current_time, server_busy, server_start_time, next_departure_time,
    queue, customer_stats, last_event_time, state_time, current_state,
    next_arrival_time,
    result,              \* the returned dictionary, or the exception raised
    n_arrivals,          \* history: arrival transitions completed in this run
    n_departures,        \* history: departure transitions completed in this run
    draws,               \* history: samples drawn in this run
    rng_at_call,         \* history: rng when the current call was entered
    zero_gap,            \* history: some interarrival sample of this run was 0
    ref                  \* history: <<arguments, result>> of an earlier seeded run that returned

vars == <<rng, arrival_rate, service_rate, simulation_time, seed, pc,
          current_time, server_busy, server_start_time, next_departure_time,
          queue, customer_stats, last_event_time, state_time, current_state,
          next_arrival_time, result, n_arrivals, n_departures, draws,
          rng_at_call, zero_gap, ref>>

(***************************************************************************)
(* Bounds of the model.                                                    *)
(***************************************************************************)
MaxEvents == 5          \* events processed by one run
RngPeriod == 7          \* period of the seeded generator

Rates    == {0 - 1, 0, 1, 2}
Horizons == {0 - 2, 0, 3, 5}
Seeds    == {<<>>, <<1>>, <<2>>}      \* <<>> is seed=None
StdSamples == {0, 2, 4}               \* standard-exponential variates

\* float('inf'): larger than every finite time of the model
Inf == 1000000

(***************************************************************************)
(* The sample source: np.random.seed and np.random.exponential.            *)
(* A generator that was never seeded by the program holds a state taken    *)
(* from OS entropy, so its variates are arbitrary; a seeded generator is a *)
(* deterministic function of its position.                                 *)
(***************************************************************************)
OsEntropy == [seeded |-> FALSE, pos |-> 0]

SeedIgnored(s, r) == r

\* lines 6-8
SeedRng(s, r) ==
    IF s = <<>> THEN r ELSE [seeded |-> TRUE, pos |-> (3 * s[1]) % RngPeriod]

StdExp(pos) == 2 * ((2 * pos + pos \div 3) % 3)

\* the standard-exponential variates the generator in state r can return
Variates(r) == IF r.seeded THEN {StdExp(r.pos)} ELSE StdSamples

Advance(r) == IF r.seeded THEN [r EXCEPT !.pos = (r.pos + 1) % RngPeriod] ELSE r

\* the exception of np.random.exponential(scale=1.0/rate), "" if none
RateError(rate) ==
    IF rate = 0 THEN "ZeroDivisionError"
    ELSE IF rate < 0 THEN "ValueError" ELSE ""

\* np.random.exponential(scale=1.0/rate) for the standard variate e
Exponential(rate, e) == e \div rate

(***************************************************************************)
(* Helpers of the event loop.                                              *)
(***************************************************************************)
Get(st, n) == IF n \in DOMAIN st THEN st[n] ELSE 0

\* state_time[n] = state_time.get(n, 0) + dt
Accrue(st, n, dt) ==
    [k \in (DOMAIN st) \cup {n} |-> IF k = n THEN Get(st, n) + dt ELSE st[k]]

ArrivalIsNextStrict == next_arrival_time < next_departure_time

\* line 29
ArrivalIsNext == next_arrival_time <= next_departure_time

ArrivalAtGap(now, gap) == gap

\* line 38
ArrivalAt(now, gap) == now + gap

DepartureBefore(now, service_time) == now - service_time

\* lines 45, 69
DepartureAt(now, service_time) == now + service_time

ServerIdleByLine == queue = <<>>

\* line 40
ServerIdle == ~server_busy

JoinLineFront(q, t) == <<t>> \o q

\* line 49
JoinLine(q, t) == Append(q, t)

NoPendingStale == current_time

\* line 75
NoPending == Inf

FinalLedgerUnclipped == Accrue(state_time, current_state, current_time - last_event_time)

\* line 78
FinalLedger == Accrue(state_time, current_state, simulation_time - last_event_time)


(***************************************************************************)
(* The statistics reducer, lines 80-128.                                   *)
(***************************************************************************)
RECURSIVE SumSeq(_)
SumSeq(s) == IF s = <<>> THEN 0 ELSE Head(s) + SumSeq(Tail(s))

RECURSIVE SumOver(_, _)
\* sum(w[n] for n in S)
SumOver(S, w) ==
    IF S = {} THEN 0
    ELSE LET n == CHOOSE x \in S : TRUE IN w[n] + SumOver(S \ {n}, w)

Max(a, b) == IF a >= b THEN a ELSE b

\* np.mean(s) if s else 0
Mean(s) == IF s = <<>> THEN <<0, 1>> ELSE <<SumSeq(s), Len(s)>>

\* lines 84, 92
IsCompleted(r) == r[3] <= simulation_time

Completed == SelectSeq(customer_stats, IsCompleted)

\* lines 93-96
SystemTimes == [i \in 1..Len(Completed) |-> Completed[i][3] - Completed[i][1]]
QueueTimes  == [i \in 1..Len(Completed) |-> Completed[i][2] - Completed[i][1]]

\* lines 89-101
ServerBusyTime ==
    SumSeq([i \in 1..Len(Completed) |-> Completed[i][3] - Completed[i][2]])
    + (IF server_busy /\ next_departure_time > simulation_time
       THEN simulation_time - server_start_time ELSE 0)

\* lines 81-128, for the ledger st after the final update
Statistics(st) ==
    [ total_customers       |-> Len(customer_stats),
      completed_customers   |-> Len(Completed),
      total_system_time     |-> SumSeq(SystemTimes),
      total_queue_time      |-> SumSeq(QueueTimes),
      server_busy_time      |-> ServerBusyTime,
      average_system_time   |-> Mean(SystemTimes),
      average_queue_time    |-> Mean(QueueTimes),
      server_utilization    |-> <<ServerBusyTime, simulation_time>>,
      average_system_length |->
          <<SumOver(DOMAIN st, [n \in DOMAIN st |-> n * st[n]]), simulation_time>>,
      average_queue_length  |->
          <<SumOver(DOMAIN st, [n \in DOMAIN st |-> Max(0, n - 1) * st[n]]),
            simulation_time>>,
      state_probabilities   |-> [n \in DOMAIN st |-> <<st[n], simulation_time>>] ]

Raised(e) == [error |-> e]

(***************************************************************************)
(* Initial state: the interpreter has started, no call has been made.      *)
(***************************************************************************)
Init ==
    /\ rng = OsEntropy
    /\ arrival_rate = 1 /\ service_rate = 1 /\ simulation_time = 0 /\ seed = <<>>
    /\ pc = "idle"
    /\ current_time = 0 /\ server_busy = FALSE /\ server_start_time = 0
    /\ next_departure_time = Inf /\ queue = <<>> /\ customer_stats = <<>>
    /\ last_event_time = 0 /\ state_time = (0 :> 0) /\ current_state = 0
    /\ next_arrival_time = 0
    /\ result = Raised("")
    /\ n_arrivals = 0 /\ n_departures = 0 /\ draws = 0
    /\ rng_at_call = OsEntropy
    /\ zero_gap = FALSE
    /\ ref = <<>>

(***************************************************************************)
(* simulate_mm1_queue(ar, sr, h, s): entry, lines 5-24.                    *)
(***************************************************************************)
Call(ar, sr, h, s) ==
    /\ pc \in {"idle", "done", "error"}
    /\ arrival_rate' = ar /\ service_rate' = sr /\ simulation_time' = h /\ seed' = s
    /\ rng_at_call' = rng
    /\ current_time' = 0 /\ server_busy' = FALSE /\ server_start_time' = 0
    /\ next_departure_time' = Inf /\ queue' = <<>> /\ customer_stats' = <<>>
    /\ last_event_time' = 0 /\ state_time' = (0 :> 0) /\ current_state' = 0
    /\ n_arrivals' = 0 /\ n_departures' = 0
    /\ LET r == SeedRng(s, rng) IN
       IF RateError(ar) # ""
       THEN /\ rng' = r
            /\ next_arrival_time' = 0
            /\ draws' = 0
            /\ zero_gap' = FALSE
            /\ result' = Raised(RateError(ar))
            /\ pc' = "error"
       ELSE \E e \in Variates(r) :
            /\ rng' = Advance(r)
            /\ next_arrival_time' = Exponential(ar, e)
            /\ draws' = 1
            /\ zero_gap' = (Exponential(ar, e) = 0)
            /\ result' = Raised("")
            /\ pc' = "loop"
    /\ \/ UNCHANGED ref
       \/ /\ pc = "done" /\ seed # <<>>
          /\ ref' = <<<<arrival_rate, service_rate, simulation_time, seed>>, result>>

(***************************************************************************)
(* One loop iteration taking the arrival branch, lines 27-52.              *)
(***************************************************************************)
Arrival ==
    /\ pc = "loop"
    /\ current_time < simulation_time
    /\ n_arrivals + n_departures < MaxEvents
    /\ ArrivalIsNext
    /\ state_time' = Accrue(state_time, current_state, next_arrival_time - last_event_time)
    /\ last_event_time' = next_arrival_time
    /\ current_time' = next_arrival_time
    /\ \E e1 \in Variates(rng) :
         LET r1 == Advance(rng) IN
         /\ next_arrival_time' = ArrivalAt(current_time', Exponential(arrival_rate, e1))
         /\ zero_gap' = (zero_gap \/ Exponential(arrival_rate, e1) = 0)
         /\ IF ServerIdle
            THEN /\ server_busy' = TRUE
                 /\ server_start_time' = current_time'
                 /\ IF RateError(service_rate) # ""
                    THEN /\ rng' = r1
                         /\ draws' = draws + 1
                         /\ result' = Raised(RateError(service_rate))
                         /\ pc' = "error"
                         /\ UNCHANGED <<next_departure_time, customer_stats,
                                        current_state, n_arrivals>>
                    ELSE \E e2 \in Variates(r1) :
                         /\ rng' = Advance(r1)
                         /\ draws' = draws + 2
                         /\ next_departure_time' =
                                DepartureAt(current_time', Exponential(service_rate, e2))
                         /\ customer_stats' = Append(customer_stats,
                                <<current_time', current_time', next_departure_time'>>)
                         /\ current_state' = current_state + 1
                         /\ n_arrivals' = n_arrivals + 1
                         /\ UNCHANGED <<result, pc>>
                 /\ UNCHANGED queue
            ELSE /\ queue' = JoinLine(queue, current_time')
                 /\ rng' = r1
                 /\ draws' = draws + 1
                 /\ current_state' = current_state + 1
                 /\ n_arrivals' = n_arrivals + 1
                 /\ UNCHANGED <<server_busy, server_start_time, next_departure_time,
                                customer_stats, result, pc>>
    /\ UNCHANGED <<arrival_rate, service_rate, simulation_time, seed, n_departures,
                   rng_at_call, ref>>

(***************************************************************************)
(* One loop iteration taking the departure branch, lines 27-29, 54-75.     *)
(***************************************************************************)
Departure ==
    /\ pc = "loop"
    /\ current_time < simulation_time
    /\ n_arrivals + n_departures < MaxEvents
    /\ ~ArrivalIsNext
    /\ state_time' = Accrue(state_time, current_state, next_departure_time - last_event_time)
    /\ last_event_time' = next_departure_time
    /\ current_time' = next_departure_time
    /\ current_state' = current_state - 1
    /\ IF queue # <<>>
       THEN /\ queue' = Tail(queue)
            /\ IF RateError(service_rate) # ""
               THEN /\ result' = Raised(RateError(service_rate))
                    /\ pc' = "error"
                    /\ UNCHANGED <<rng, draws, next_departure_time, customer_stats,
                                   server_start_time, n_departures>>
               ELSE \E e \in Variates(rng) :
                    /\ rng' = Advance(rng)
                    /\ draws' = draws + 1
                    /\ next_departure_time' =
                           DepartureAt(current_time', Exponential(service_rate, e))
                    /\ customer_stats' = Append(customer_stats,
                           <<Head(queue), current_time', next_departure_time'>>)
                    /\ server_start_time' = current_time'
                    /\ n_departures' = n_departures + 1
                    /\ UNCHANGED <<result, pc>>
            /\ UNCHANGED server_busy
       ELSE /\ server_busy' = FALSE
            /\ next_departure_time' = NoPending
            /\ n_departures' = n_departures + 1
            /\ UNCHANGED <<queue, rng, draws, customer_stats, server_start_time,
                           result, pc>>
    /\ UNCHANGED <<arrival_rate, service_rate, simulation_time, seed,
                   next_arrival_time, n_arrivals, rng_at_call, zero_gap, ref>>

(***************************************************************************)
(* Loop exit, final ledger update, statistics and return, lines 27, 78-128.*)
(***************************************************************************)
Finish ==
    /\ pc = "loop"
    /\ ~(current_time < simulation_time)
    /\ state_time' = FinalLedger
    /\ IF simulation_time = 0
       THEN /\ result' = Raised("ZeroDivisionError")
            /\ pc' = "error"
       ELSE /\ result' = Statistics(state_time')
            /\ pc' = "done"
    /\ UNCHANGED <<ref, rng, arrival_rate, service_rate, simulation_time, seed,
                   current_time, server_busy, server_start_time, next_departure_time,
                   queue, customer_stats, last_event_time, current_state,
                   next_arrival_time, n_arrivals, n_departures, draws, rng_at_call,
                   zero_gap>>

Next ==
    \/ \E ar \in Rates, sr \in Rates, h \in Horizons, s \in Seeds : Call(ar, sr, h, s)
    \/ Arrival
    \/ Departure
    \/ Finish

Spec == Init /\ [][Next]_vars

\* a call, once entered, runs on: the interpreter takes the next step of the
\* loop and of the return; nothing obliges the caller to call again
LiveSpec == Spec /\ WF_vars(Arrival) /\ WF_vars(Departure) /\ WF_vars(Finish)

TypeOK ==
    /\ pc \in {"idle", "loop", "done", "error"}
    /\ current_state \in Int
    /\ server_busy \in BOOLEAN
    /\ rng.pos \in 0..(RngPeriod - 1)

Returned == pc = "done"
Ended == pc \in {"done", "error"}
Args == <<arrival_rate, service_rate, simulation_time, seed>>
Ledger == SumOver(DOMAIN state_time, state_time)
Overshoot == last_event_time > simulation_time

(***************************************************************************)
(* C1: when a run with horizon > 0 has returned, the ledger entries summed *)
(* over all population counts equal the horizon, and the numerators of the *)
(* state_probabilities sum to their common denominator, the horizon (the   *)
(* probabilities sum to 1).                                                *)
(***************************************************************************)
LedgerSumsToHorizon ==
    (Returned /\ simulation_time > 0) =>
        /\ Ledger = simulation_time
        /\ DOMAIN result.state_probabilities = DOMAIN state_time
        /\ \A n \in DOMAIN state_time :
               result.state_probabilities[n][2] = simulation_time
        /\ SumOver(DOMAIN state_time,
                   [n \in DOMAIN state_time |-> result.state_probabilities[n][1]])
             = simulation_time

\* a returned run whose last event fell after the horizon and that saw three counts
LedgerSumsToHorizonWitness ==
    /\ Returned /\ simulation_time > 0 /\ Overshoot
    /\ Cardinality(DOMAIN state_time) >= 3
    /\ n_departures >= 1

(***************************************************************************)
(* C2: when a run with horizon > 0 has returned, every ledger entry lies   *)
(* in [0, horizon], so every state probability lies in [0, 1].             *)
(***************************************************************************)
LedgerEntriesInRange ==
    (Returned /\ simulation_time > 0) =>
        \A n \in DOMAIN state_time :
            /\ 0 <= state_time[n] /\ state_time[n] <= simulation_time
            /\ 0 <= result.state_probabilities[n][1]
            /\ result.state_probabilities[n][1] <= result.state_probabilities[n][2]

(***************************************************************************)
(* C3: when a run with horizon > 0 has returned, server_utilization =      *)
(* server_busy_time / horizon lies in [0, 1].                              *)
(***************************************************************************)
UtilizationInUnitInterval ==
    (Returned /\ simulation_time > 0) =>
        /\ result.server_utilization[2] = simulation_time
        /\ 0 <= result.server_utilization[1]
        /\ result.server_utilization[1] <= result.server_utilization[2]

(***************************************************************************)
(* C4: a call with arrival_rate <= 0, service_rate <= 0 or horizon <= 0    *)
(* ends in an error, raised before any sample is drawn, any event is       *)
(* processed or any simulation state is changed; it never returns a result.*)
(***************************************************************************)
InvalidParameterRejected ==
    (Ended /\ (arrival_rate <= 0 \/ service_rate <= 0 \/ simulation_time <= 0)) =>
        /\ pc = "error"
        /\ draws = 0
        /\ n_arrivals + n_departures = 0
        /\ current_time = 0 /\ last_event_time = 0
        /\ ~server_busy
        /\ state_time = (0 :> 0)

(***************************************************************************)
(* C5: when the first sampled arrival time is later than the horizon, the  *)
(* run returns with completed_customers = 0 and average_system_time,       *)
(* average_queue_time, average_system_length, average_queue_length and     *)
(* server_utilization all equal to 0.                                      *)
(***************************************************************************)
FirstArrivalTime == customer_stats[1][1]

ZeroArrivalsAllZero ==
    (Returned /\ simulation_time > 0 /\ customer_stats # <<>>
        /\ FirstArrivalTime > simulation_time) =>
        /\ result.completed_customers = 0
        /\ result.average_system_time[1] = 0
        /\ result.average_queue_time[1] = 0
        /\ result.average_system_length[1] = 0
        /\ result.average_queue_length[1] = 0
        /\ result.server_utilization[1] = 0

(***************************************************************************)
(* C6: a seeded run that returns yields the same result, field for field,  *)
(* as any earlier returned run with the same (arrival_rate, service_rate,  *)
(* horizon, seed), whatever runs were executed in between.                 *)
(***************************************************************************)
SeededRunsRepeat ==
    (Returned /\ seed # <<>> /\ ref # <<>> /\ ref[1] = Args) => result = ref[2]

\* a seeded run repeats an earlier one after other runs moved the generator
\* to a position that is not the one its seed selects
SeededRunsRepeatWitness ==
    /\ Returned /\ seed # <<>> /\ ref # <<>> /\ ref[1] = Args
    /\ rng_at_call.seeded
    /\ rng_at_call # SeedRng(seed, rng_at_call)
    /\ n_arrivals >= 2 /\ n_departures >= 1

(***************************************************************************)
(* C7: a run leaves the state visible to later runs unchanged: when a call *)
(* has ended, the process-wide random-sample source is in the state it had *)
(* when the call was entered.                                              *)
(***************************************************************************)
NoStateAcrossRuns == Ended => rng = rng_at_call

(***************************************************************************)
(* C8: every customer record with departure_time <= horizon has            *)
(* arrival_time <= service_start_time <= departure_time.                   *)
(***************************************************************************)
CompletedRecordsOrdered ==
    \A i \in 1..Len(customer_stats) :
        IsCompleted(customer_stats[i]) =>
            /\ customer_stats[i][1] <= customer_stats[i][2]
            /\ customer_stats[i][2] <= customer_stats[i][3]

\* a returned run with a completed customer who waited and was then served
CompletedRecordsOrderedWitness ==
    /\ Returned
    /\ \E i \in 1..Len(customer_stats) :
           /\ IsCompleted(customer_stats[i])
           /\ customer_stats[i][1] < customer_stats[i][2]
           /\ customer_stats[i][2] < customer_stats[i][3]

(***************************************************************************)
(* C9: the total_customers field of a returned result equals the number of *)
(* arrival transitions the event loop processed.                           *)
(***************************************************************************)
TotalCustomersCountsArrivals ==
    Returned => result.total_customers = n_arrivals

(***************************************************************************)
(* C10: the population count is never negative, an arrival transition      *)
(* raises it by exactly one, a departure transition lowers it by exactly   *)
(* one, and a departure transition is never taken when the count is 0.     *)
(***************************************************************************)
PopulationStepsByOne ==
    /\ [](current_state >= 0)
    /\ [][/\ (n_arrivals' = n_arrivals + 1) => (current_state' = current_state + 1)
          /\ (n_departures' = n_departures + 1) =>
                 (current_state > 0 /\ current_state' = current_state - 1)
          /\ (pc = "loop" /\ pc' = "loop") =>
                 (n_arrivals' + n_departures' = n_arrivals + n_departures + 1)]_vars

\* the system emptied after holding two customers
PopulationStepsByOneWitness ==
    /\ pc = "loop" /\ current_state = 0
    /\ n_arrivals >= 2 /\ n_departures >= 2

\* a point between two loop iterations, or the loop's exit
AtBoundary == pc \in {"loop", "done"}

(***************************************************************************)
(* C11: at every loop-iteration boundary next_departure_time is infinity   *)
(* if and only if the server is idle and the waiting line is empty, and    *)
(* the waiting line is never non-empty while the server is idle.           *)
(***************************************************************************)
NoDepartureIffIdleAndEmpty ==
    AtBoundary =>
        /\ (next_departure_time = Inf) <=> (~server_busy /\ queue = <<>>)
        /\ ~server_busy => queue = <<>>

\* the server went idle again after a customer had waited in the line
NoDepartureIffIdleAndEmptyWitness ==
    /\ pc = "loop" /\ ~server_busy /\ next_departure_time = Inf
    /\ n_departures >= 2
    /\ \E i \in 1..Len(customer_stats) : customer_stats[i][1] < customer_stats[i][2]

(***************************************************************************)
(* The population trajectory of the run, read from its trace: a customer   *)
(* is in the system from its arrival time (kept in its record, or in the   *)
(* waiting line) up to the departure time of its record.  Times are        *)
(* integers, so the count is constant on every unit interval [k, k + 1).   *)
(***************************************************************************)
PopulationAt(t) ==
    Cardinality({i \in 1..Len(customer_stats) : customer_stats[i][1] <= t})
    + Cardinality({j \in 1..Len(queue) : queue[j] <= t})
    - Cardinality({i \in 1..Len(customer_stats) : customer_stats[i][3] <= t})

\* the time within [0, horizon] during which the population count was n
TimeAtCount(n) ==
    Cardinality({k \in 0..(simulation_time - 1) : PopulationAt(k) = n})

(***************************************************************************)
(* C12: when a run with horizon > 0 has returned, every ledger entry       *)
(* state_time[n] equals the time within [0, horizon] during which the      *)
(* population count was n, also when the last event fell after the horizon.*)
(***************************************************************************)
LedgerIsTimeInState ==
    (Returned /\ simulation_time > 0) =>
        \A n \in DOMAIN state_time : state_time[n] = TimeAtCount(n)

(***************************************************************************)
(* C13: customers enter service in first-come-first-served order: the      *)
(* arrival times of the customer records are non-decreasing in the order   *)
(* the records were appended, and a departure transition that finds the    *)
(* waiting line non-empty appends the record of the customer with the      *)
(* earliest arrival time in the line and removes it from the line.         *)
(***************************************************************************)
FirstComeFirstServed ==
    /\ [](\A i \in 1..(Len(customer_stats) - 1) :
              customer_stats[i][1] <= customer_stats[i + 1][1])
    /\ [][(n_departures' = n_departures + 1 /\ queue # <<>>) =>
              /\ Len(customer_stats') = Len(customer_stats) + 1
              /\ \A j \in 1..Len(queue) :
                     customer_stats'[Len(customer_stats')][1] <= queue[j]
              /\ \E j \in 1..Len(queue) :
                     customer_stats'[Len(customer_stats')][1] = queue[j]
              /\ Len(queue') = Len(queue) - 1
              /\ \A j \in 1..Len(queue') : queue'[j] = queue[j + 1]]_vars

\* two customers who arrived at different times both waited and were served in turn
FirstComeFirstServedWitness ==
    /\ pc = "loop"
    /\ \E i \in 1..(Len(customer_stats) - 1) :
           /\ customer_stats[i][1] < customer_stats[i][2]
           /\ customer_stats[i + 1][1] < customer_stats[i + 1][2]
           /\ customer_stats[i][1] < customer_stats[i + 1][1]

Min(a, b) == IF a <= b THEN a ELSE b

(***************************************************************************)
(* C14: each loop iteration processes the earlier of the two pending       *)
(* events: it sets current_time to the smaller of next_arrival_time and    *)
(* next_departure_time, it is an arrival transition only when              *)
(* next_arrival_time <= next_departure_time (arrival wins a tie) and a     *)
(* departure transition only when next_departure_time is strictly smaller. *)
(***************************************************************************)
EarlierEventFirst ==
    [][(pc = "loop" /\ current_time < simulation_time) =>
           /\ current_time' = Min(next_arrival_time, next_departure_time)
           /\ (n_arrivals' = n_arrivals + 1) =>
                  /\ next_arrival_time <= next_departure_time
                  /\ current_time' = next_arrival_time
           /\ (n_departures' = n_departures + 1) =>
                  /\ next_departure_time < next_arrival_time
                  /\ current_time' = next_departure_time
           /\ (pc' = "loop") =>
                  n_arrivals' + n_departures' = n_arrivals + n_departures + 1]_vars

\* an arrival was processed at the very time the pending departure is due
EarlierEventFirstWitness ==
    /\ pc = "loop" /\ queue # <<>>
    /\ queue[Len(queue)] = current_time
    /\ next_departure_time = current_time
    /\ current_time > 0

(***************************************************************************)
(* C15: current_time is never negative and never decreases during a run,   *)
(* and every amount added to the ledger inside the loop is >= 0.           *)
(***************************************************************************)
TimeNeverGoesBack ==
    /\ [](current_time >= 0)
    /\ [][(pc = "loop") =>
              /\ current_time' >= current_time
              /\ (current_time < simulation_time) =>
                     /\ Min(next_arrival_time, next_departure_time) >= last_event_time
                     /\ state_time'[current_state] >= Get(state_time, current_state)]_vars

\* the clock moved forward through arrivals and a departure
TimeNeverGoesBackWitness ==
    /\ pc = "loop" /\ n_arrivals >= 2 /\ n_departures >= 1
    /\ current_time = last_event_time
    /\ current_time > customer_stats[1][1]
    /\ customer_stats[1][1] > 0

\* the longest run without a zero interarrival sample fits the bound on events:
\* the k-th arrival is at time >= k, and at most horizon - 1 departures precede
\* the arrival that ends the loop
WithinEventBound == 2 * simulation_time - 1 <= MaxEvents

PositiveGapRunInLoop ==
    /\ pc = "loop" /\ simulation_time > 0 /\ service_rate > 0
    /\ ~zero_gap /\ WithinEventBound

(***************************************************************************)
(* C16: a run with horizon > 0 whose interarrival samples are all positive *)
(* (at least one time unit) eventually leaves the loop and returns a       *)
(* result.  Stated for the horizons whose runs the bound on events of the  *)
(* model does not cut short.                                               *)
(***************************************************************************)
RunReturns == PositiveGapRunInLoop ~> (pc = "done" \/ zero_gap)

\* a run with positive interarrival samples returned after the most events it can take
RunReturnsWitness ==
    /\ pc = "done" /\ simulation_time > 0 /\ ~zero_gap /\ WithinEventBound
    /\ n_arrivals + n_departures = 2 * simulation_time - 1

(***************************************************************************)
(* C17: at every loop-iteration boundary the population count equals the   *)
(* length of the waiting line plus one if the server is busy, and the      *)
(* number of arrival transitions processed equals the number of customer   *)
(* records plus the length of the waiting line.                            *)
(***************************************************************************)
CountIsLinePlusServer ==
    AtBoundary =>
        /\ current_state = Len(queue) + (IF server_busy THEN 1 ELSE 0)
        /\ n_arrivals = Len(customer_stats) + Len(queue)

\* the server is busy with two customers waiting after an earlier departure
CountIsLinePlusServerWitness ==
    /\ pc = "loop" /\ server_busy /\ Len(queue) = 2 /\ n_departures >= 1

\* the part of the interval [from, to] that lies within [0, horizon]
Within(from, to) ==
    Max(0, Min(to, simulation_time) - Min(from, simulation_time))

\* the time within [0, horizon] during which the server was serving a
\* customer: every record is one service, from service_start_time to departure_time
TimeServing ==
    SumSeq([i \in 1..Len(customer_stats) |->
               Within(customer_stats[i][2], customer_stats[i][3])])

(***************************************************************************)
(* C18: the server_busy_time of a returned result equals the total time    *)
(* within [0, horizon] during which the server was serving a customer,     *)
(* also when the last processed event fell after the horizon.              *)
(***************************************************************************)
BusyTimeIsTimeServing ==
    (Returned /\ simulation_time > 0) => result.server_busy_time = TimeServing

(***************************************************************************)
(* C19: in every returned result the trace-based and the ledger-based      *)
(* accounts of server occupancy agree: server_busy_time equals the sum of  *)
(* the ledger entries for counts >= 1, that is, server_utilization =       *)
(* 1 - state_probabilities[0] = average_system_length -                    *)
(* average_queue_length (all over the common denominator, the horizon).    *)
(***************************************************************************)
BusyTimeMatchesLedger ==
    (Returned /\ simulation_time > 0) =>
        /\ result.server_busy_time = SumOver(DOMAIN state_time \ {0}, state_time)
        /\ result.server_utilization[1]
             = simulation_time - result.state_probabilities[0][1]
        /\ result.server_utilization[1]
             = result.average_system_length[1] - result.average_queue_length[1]

(***************************************************************************)
(* C20: the server serves at most one customer at a time: of two           *)
(* consecutive customer records the later one's service_start_time is >=   *)
(* the earlier one's departure_time, and while the server is busy          *)
(* next_departure_time and server_start_time are the departure_time and    *)
(* the service_start_time of the most recently appended record.            *)
(***************************************************************************)
OneCustomerInService ==
    AtBoundary =>
        /\ \A i \in 1..(Len(customer_stats) - 1) :
               customer_stats[i + 1][2] >= customer_stats[i][3]
        /\ server_busy =>
               /\ customer_stats # <<>>
               /\ next_departure_time = customer_stats[Len(customer_stats)][3]
               /\ server_start_time = customer_stats[Len(customer_stats)][2]

\* a customer who waited is in service, started when the one before departed
OneCustomerInServiceWitness ==
    /\ pc = "loop" /\ server_busy /\ Len(customer_stats) >= 2
    /\ customer_stats[Len(customer_stats)][1] < customer_stats[Len(customer_stats)][2]
    /\ customer_stats[Len(customer_stats)][2] = customer_stats[Len(customer_stats) - 1][3]
    /\ customer_stats[Len(customer_stats)][2] < customer_stats[Len(customer_stats)][3]

====
